---- MODULE Spec2Model ----
(***************************************************************************)
(* Model of src/matrix.h: MatrixType<T>, a 2-D buffer value (raw pointer,  *)
(* col, row, allocationType) backed by host, device or managed memory,     *)
(* with its factories, copyFrom and FreeMatrix.                            *)
(*                                                                         *)
(* Memory is a table of regions.  A pointer is Null, a region id, or Wild  *)
(* (an address inside no region).  An element is a written value (>= 0) or *)
(* an indeterminate one, kept symbolic as Indet(r, i) < 0, one unknown per *)
(* cell: what new T[n], cudaMalloc or a read past the end of region r      *)
(* finds at offset i.                                                      *)
(*                                                                         *)
(* The CUDA runtime and operator new are the backend.  An allocation may   *)
(* fail at any call (out of memory).  A transfer or a release fails when   *)
(* its arguments are invalid, as the runtime documents; the header never   *)
(* reads the status either of them returns.                                *)
(***************************************************************************)
EXTENDS Integers, Sequences, FiniteSets, TLC

(* ------------------------------- bounds -------------------------------- *)
MaxRegions  == 3      \* allocations over one run
MaxDim      == 2      \* the largest extent the caller asks for
MaxVal      == 1      \* element values the caller writes: 0..MaxVal
MaxStores   == 1      \* element writes by the caller in one run
MaxOps      == 4      \* operations the caller performs in one run
MaxFailures == 1      \* allocations the backend refuses in one run

Null == 0

\* the caller's two variables: every operation of the header takes at most
\* two MatrixType values, the one it writes and the one it reads
Matrices == {1, 2}
Regions  == 1 .. MaxRegions
Wild     == MaxRegions + 1
\* <<cols, rows>> the caller asks for: empty, one column, a square
Shapes   == {<<0, 0>>, <<1, MaxDim>>, <<MaxDim, MaxDim>>}
Dims     == 0 .. MaxDim
Val      == 0 .. MaxVal
\* the indeterminate value at offset i (from 1) of region r
Indet(r, i) == 0 - (r * (MaxDim * MaxDim + 1) + i)

VARIABLES
  mats,     \* mats[m]: the MatrixType value held in variable m
  heap,     \* heap[r]: region r of the backend's memory
  stores,   \* element writes done so far
  ops,      \* operations performed so far
  failures, \* allocations refused so far
  last      \* what the last operation did (observation only)

vars == <<mats, heap, stores, ops, failures, last>>

(* ------------------------ MatrixType and memory ------------------------ *)
MatrixAllocationType == {"Empty", "CPU", "GPU", "Managed"}

MatrixType(raw, col, row, allocationType) ==
  [raw |-> raw, col |-> col, row |-> row, allocationType |-> allocationType]

rows(m) == m.row
cols(m) == m.col
size(m) == m.row * m.col

NoRegion == [space |-> "none", len |-> 0, data |-> << >>, live |-> FALSE, frees |-> 0]

HostSide   == {"host", "managed"}
DeviceSide == {"device", "managed"}

\* ptr addresses a region that is allocated and not yet released
Live(h, ptr) == ptr \in Regions /\ h[ptr].live

HasFree(h) == \E r \in Regions : h[r].space = "none"
NextRegion(h) == CHOOSE r \in Regions :
                   /\ h[r].space = "none"
                   /\ \A q \in Regions : q < r => h[q].space # "none"

\* a fresh region of n elements in the given space, contents indeterminate
Allocate(h, space, n) ==
  LET r == NextRegion(h) IN
  [h EXCEPT ![r] = [space |-> space, len |-> n,
                    data |-> [i \in 1 .. n |-> Indet(r, i)],
                    live |-> TRUE, frees |-> 0]]

\* the region is handed back to the backend; what it held is gone
Release(h, r) ==
  [h EXCEPT ![r] = [@ EXCEPT !.live = FALSE, !.data = << >>,
                             !.frees = IF @ < 2 THEN @ + 1 ELSE @]]

\* what an uninitialised T* local may hold: null, an address inside no
\* region, or the address of a region obtained earlier
Garbage(h) == {Null, Wild} \cup {r \in Regions : h[r].space # "none"}

NoCopy == [prim |-> "none", n |-> 0, status |-> "none", readPast |-> FALSE]

(* ------------------------------ factories ------------------------------ *)
\* l.98-101: new T[rows * cols] throws std::bad_alloc when it cannot
\* allocate, so no value is returned
CreateCPU(h, c, r, env) ==
  IF env.ok
  THEN [ret |-> "value", alloc |-> "ok", heap |-> Allocate(h, "host", r * c),
        buf |-> MatrixType(NextRegion(h), c, r, "CPU")]
  ELSE [ret |-> "bad_alloc", alloc |-> "fail", heap |-> h,
        buf |-> MatrixType(Null, 0, 0, "Empty")]

\* l.103-107: T* data is uninitialised and the status of cudaMalloc is not
\* read: on failure data is returned as it was, tagged GPU
CreateGPU(h, c, r, env) ==
  IF env.ok
  THEN [ret |-> "value", alloc |-> "ok", heap |-> Allocate(h, "device", r * c),
        buf |-> MatrixType(NextRegion(h), c, r, "GPU")]
  ELSE [ret |-> "value", alloc |-> "fail", heap |-> h,
        buf |-> MatrixType(env.garbage, c, r, "GPU")]

\* l.109-112: the body declares no local `data`; the name is the member
\* function data() of l.59/62, whose address is neither a void** nor a T*.
\* Every specialisation is ill-formed: no program that calls it is built.
CreateManaged(h, c, r, env) ==
  [ret |-> "ill_formed", alloc |-> "none", heap |-> h,
   buf |-> MatrixType(Null, 0, 0, "Empty")]

CreateCPUMatrix(h, c, r, env)     == CreateCPU(h, c, r, env)
CreateGPUMatrix(h, c, r, env)     == CreateGPU(h, c, r, env)
CreateManagedMatrix(h, c, r, env) == CreateManaged(h, c, r, env)

(* ------------------------------- copyFrom ------------------------------ *)
\* Dispatch with the two cudaMemcpyKind arguments of l.123 and l.133
\* exchanged
DispatchKindsExchanged(dstType, srcType) ==
  CASE dstType = "CPU"     /\ srcType \in {"CPU", "Managed"} -> "memcpy"
    [] dstType = "CPU"     /\ srcType = "GPU"                -> "HostToDevice"
    [] dstType = "GPU"     /\ srcType \in {"CPU", "Managed"} -> "DeviceToHost"
    [] dstType = "GPU"     /\ srcType = "GPU"                -> "DeviceToDevice"
    [] dstType = "Managed" /\ srcType \in {"CPU", "Managed"} -> "memcpy"
    [] dstType = "Managed" /\ srcType = "GPU"                -> "DeviceToHost"
    [] OTHER                                                 -> "none"

\* l.115-157: the primitive the two nested switches select
Dispatch(dstType, srcType) ==
  CASE dstType = "CPU"     /\ srcType \in {"CPU", "Managed"} -> "memcpy"
    [] dstType = "CPU"     /\ srcType = "GPU"                -> "DeviceToHost"
    [] dstType = "GPU"     /\ srcType \in {"CPU", "Managed"} -> "HostToDevice"
    [] dstType = "GPU"     /\ srcType = "GPU"                -> "DeviceToDevice"
    [] dstType = "Managed" /\ srcType \in {"CPU", "Managed"} -> "memcpy"
    [] dstType = "Managed" /\ srcType = "GPU"                -> "DeviceToHost"
    [] OTHER                                                 -> "none"

DstSide(prim) == IF prim \in {"memcpy", "DeviceToHost"} THEN HostSide ELSE DeviceSide
SrcSide(prim) == IF prim \in {"memcpy", "HostToDevice"} THEN HostSide ELSE DeviceSide

\* element i of a transfer out of region src: past its end the read is of
\* whatever lies behind the region
ReadElem(h, src, i) == IF i <= h[src].len THEN h[src].data[i] ELSE Indet(src, i)

\* ::memcpy / cudaMemcpy (dst, src, sizeof(T) * n, direction).
\* A transfer of 0 bytes does nothing.  Otherwise both pointers must address
\* live regions on the side the primitive expects and the destination must
\* hold n elements: cudaMemcpy then returns an error, memcpy has undefined
\* behaviour (taken here as the fault that stops at the first bad access);
\* in both cases no region changes.  A source shorter than n is read past
\* its end when it is host memory; the runtime may reject a device range
\* that leaves the allocation (env.over tells).
Transfer(h, dst, src, n, prim, env) ==
  LET bad   == IF prim = "memcpy" THEN "fault" ELSE "error"
      past  == Live(h, src) /\ n > h[src].len
      valid == /\ Live(h, dst) /\ h[dst].space \in DstSide(prim)
               /\ Live(h, src) /\ h[src].space \in SrcSide(prim)
               /\ n <= h[dst].len
               /\ (past /\ h[src].space = "device" => env.over)
  IN  IF n = 0
      THEN [heap |-> h, prim |-> prim, n |-> n, status |-> "ok", readPast |-> FALSE]
      ELSE IF ~valid
      THEN [heap |-> h, prim |-> prim, n |-> n, status |-> bad, readPast |-> FALSE]
      ELSE [heap |-> [h EXCEPT ![dst].data =
                        [i \in 1 .. h[dst].len |->
                           IF i <= n THEN ReadElem(h, src, i) ELSE h[dst].data[i]]],
            prim |-> prim, n |-> n, status |-> "ok", readPast |-> past]

\* copyFrom with the inner `default: break;` of l.125-126 missing, so that an
\* Empty source runs into the case above it
copyFromNoInnerDefault(h, this, other, env) ==
  LET srcType == IF other.allocationType = "Empty" THEN "GPU"
                 ELSE other.allocationType
      prim    == Dispatch(this.allocationType, srcType) IN
  IF prim = "none"
  THEN [heap |-> h] @@ NoCopy
  ELSE Transfer(h, this.raw, other.raw, size(this), prim, env)

\* copyFrom with the two pointer arguments of the primitive exchanged:
\* the elements go from this->raw into other.raw
copyFromIntoOther(h, this, other, env) ==
  LET prim == Dispatch(this.allocationType, other.allocationType) IN
  IF prim = "none"
  THEN [heap |-> h] @@ NoCopy
  ELSE Transfer(h, other.raw, this.raw, size(this), prim, env)

\* copyFrom with the byte count taken from the source, sizeof(T) *
\* other.size()
copyFromSizeOfOther(h, this, other, env) ==
  LET prim == Dispatch(this.allocationType, other.allocationType) IN
  IF prim = "none"
  THEN [heap |-> h] @@ NoCopy
  ELSE Transfer(h, this.raw, other.raw, size(other), prim, env)

\* l.114-158: this->copyFrom(other); nothing is returned
copyFrom(h, this, other, env) ==
  LET prim == Dispatch(this.allocationType, other.allocationType) IN
  IF prim = "none"
  THEN [heap |-> h] @@ NoCopy
  ELSE Transfer(h, this.raw, other.raw, size(this), prim, env)

(* --------------------------- clone factories --------------------------- *)
Clone(h, other, created, env) ==
  IF other.allocationType = "Empty"
  THEN [ret |-> "value", alloc |-> "none", heap |-> h,
        buf |-> MatrixType(Null, 0, 0, "Empty")] @@ NoCopy
  ELSE IF created.ret # "value"
  THEN created @@ NoCopy
  ELSE LET x == copyFrom(created.heap, created.buf, other, env) IN
       [ret |-> "value", alloc |-> created.alloc, heap |-> x.heap,
        buf |-> created.buf, prim |-> x.prim, n |-> x.n,
        status |-> x.status, readPast |-> x.readPast]

\* l.177-184
CreateCPUMatrixFrom(h, other, env) ==
  Clone(h, other, CreateCPUMatrix(h, cols(other), rows(other), env), env)

\* l.186-193
CreateGPUMatrixFrom(h, other, env) ==
  Clone(h, other, CreateGPUMatrix(h, cols(other), rows(other), env), env)

\* l.195-202: the function template names CreateManagedMatrix<T>(int, int),
\* so instantiating it instantiates the ill-formed CreateManaged whatever
\* `other` is
CreateManagedMatrixFrom(h, other, env) ==
  LET created == CreateManagedMatrix(h, cols(other), rows(other), env) IN
  IF created.ret = "ill_formed" THEN created @@ NoCopy
  ELSE Clone(h, other, created, env)

(* ------------------------------ FreeMatrix ----------------------------- *)
\* delete[] over an allocator that recognises a region it has already taken
\* back and leaves it alone
DeleteArrayTolerant(h, p) ==
  IF p = Null THEN [heap |-> h, status |-> "ok"]
  ELSE IF Live(h, p) /\ h[p].space = "host"
  THEN [heap |-> Release(h, p), status |-> "ok"]
  ELSE [heap |-> h, status |-> "ok"]

\* delete[] p: nothing for a null pointer; releases a live host region;
\* anything else is undefined behaviour (a second release is counted)
DeleteArray(h, p) ==
  IF p = Null THEN [heap |-> h, status |-> "ok"]
  ELSE IF Live(h, p) /\ h[p].space = "host"
  THEN [heap |-> Release(h, p), status |-> "ok"]
  ELSE [heap |-> IF p \in Regions /\ h[p].space = "host" THEN Release(h, p) ELSE h,
        status |-> "fault"]

\* cudaFree (p): nothing for a null pointer; releases a live device or
\* managed region; otherwise returns an error (a second release is counted)
cudaFree(h, p) ==
  IF p = Null THEN [heap |-> h, status |-> "ok"]
  ELSE IF Live(h, p) /\ h[p].space \in DeviceSide
  THEN [heap |-> Release(h, p), status |-> "ok"]
  ELSE [heap |-> IF p \in Regions /\ h[p].space \in DeviceSide
                 THEN Release(h, p) ELSE h,
        status |-> "error"]

\* FreeMatrix with `default: break;` of l.214-215 missing from the switch and
\* Empty running into cudaFree
FreeMatrixNoDefault(h, mat) ==
  LET d == CASE mat.allocationType = "CPU" ->
                  DeleteArray(h, mat.raw) @@ [dealloc |-> "delete[]"]
             [] OTHER ->
                  cudaFree(h, mat.raw) @@ [dealloc |-> "cudaFree"]
  IN  [heap |-> d.heap, dealloc |-> d.dealloc, status |-> d.status,
       ptr |-> mat.raw,
       buf |-> [mat EXCEPT !.raw = Null, !.allocationType = "Empty"]]

\* FreeMatrix with the bodies of `case CPU` and `case GPU: case Managed` of
\* l.207-213 exchanged
FreeMatrixDeallocExchanged(h, mat) ==
  LET d == CASE mat.allocationType = "CPU" ->
                  cudaFree(h, mat.raw) @@ [dealloc |-> "cudaFree"]
             [] mat.allocationType \in {"GPU", "Managed"} ->
                  DeleteArray(h, mat.raw) @@ [dealloc |-> "delete[]"]
             [] OTHER -> [heap |-> h, status |-> "none", dealloc |-> "none"]
  IN  [heap |-> d.heap, dealloc |-> d.dealloc, status |-> d.status,
       ptr |-> IF d.dealloc = "none" THEN Null ELSE mat.raw,
       buf |-> [mat EXCEPT !.raw = Null, !.allocationType = "Empty"]]

\* l.204-219: col and row are left as they were
FreeMatrix(h, mat) ==
  LET d == CASE mat.allocationType = "CPU" ->
                  DeleteArray(h, mat.raw) @@ [dealloc |-> "delete[]"]
             [] mat.allocationType \in {"GPU", "Managed"} ->
                  cudaFree(h, mat.raw) @@ [dealloc |-> "cudaFree"]
             [] OTHER -> [heap |-> h, status |-> "none", dealloc |-> "none"]
  IN  [heap |-> d.heap, dealloc |-> d.dealloc, status |-> d.status,
       ptr |-> IF d.dealloc = "none" THEN Null ELSE mat.raw,
       buf |-> [mat EXCEPT !.raw = Null, !.allocationType = "Empty"]]

(* ------------------------------ accessors ------------------------------ *)
\* operator() with a column-major offset, c * row + r
Index2DColumnMajor(m, c, r) == c * m.row + r

\* l.64-72: operator() (c, r) is raw [r * col + c]
Index2D(m, c, r) == r * m.col + c

\* l.92-96: operator[] (i) is raw [i]; regions are indexed from 1 here
Elem(h, m, i) == h[m.raw].data[i + 1]
At(h, m, c, r) == Elem(h, m, Index2D(m, c, r))

\* m can be dereferenced on the host: host or managed storage that is live
\* and holds size() elements
SpaceOf(allocationType) ==
  CASE allocationType = "CPU"     -> "host"
    [] allocationType = "GPU"     -> "device"
    [] allocationType = "Managed" -> "managed"
    [] OTHER                      -> "none"

\* m owns its storage: raw addresses a live region of size() elements in
\* the memory space its allocationType names
Owns(h, m) ==
  /\ m.allocationType # "Empty"
  /\ Live(h, m.raw)
  /\ h[m.raw].space = SpaceOf(m.allocationType)
  /\ h[m.raw].len = size(m)

\* the elements of m in linear order
Contents(h, m) == h[m.raw].data

HostReadable(h, m) ==
  /\ m.allocationType \in {"CPU", "Managed"}
  /\ Live(h, m.raw) /\ h[m.raw].space \in HostSide
  /\ h[m.raw].len = size(m)

(* ------------------------------- actions ------------------------------- *)
Env(h) == [ok : BOOLEAN, garbage : Garbage(h), over : BOOLEAN]
EnvOK(h, env) == IF env.ok THEN HasFree(h) ELSE failures < MaxFailures

Quiet == [ret |-> "none", alloc |-> "none", dealloc |-> "none", freed |-> "none",
          ptr |-> Null] @@ NoCopy

Init ==
  /\ mats = [m \in Matrices |-> MatrixType(Null, 0, 0, "Empty")]
  /\ heap = [r \in Regions |-> NoRegion]
  /\ stores = 0
  /\ ops = 0
  /\ failures = 0
  /\ last = [op |-> "init", dst |-> 0, src |-> 0, c |-> 0, r |-> 0] @@ Quiet

\* one more operation of the run
Step == ops < MaxOps /\ ops' = ops + 1

\* mats[m] = Create...(c, r) or Create...(mats[s]): the variable receives the
\* value when one is returned
Returned(op, m, s, result) ==
  \E res \in {result} :
  /\ mats' = IF res.ret = "value" THEN [mats EXCEPT ![m] = res.buf] ELSE mats
  /\ heap' = res.heap
  /\ last' = [op |-> op, dst |-> m, src |-> s, ret |-> res.ret, alloc |-> res.alloc,
               c |-> IF res.ret = "value" THEN res.c ELSE 0,
               r |-> IF res.ret = "value" THEN res.r ELSE 0,
               prim |-> res.prim, n |-> res.n, status |-> res.status,
               readPast |-> res.readPast] @@ Quiet
  /\ failures' = IF res.alloc = "fail" THEN failures + 1 ELSE failures
  /\ UNCHANGED stores

\* a variable is given a value when it holds none; the caller takes its
\* variables in order
Vacant(m) ==
  /\ mats[m].allocationType = "Empty"
  /\ \A q \in Matrices : q < m => mats[q].allocationType # "Empty"

CallCreateCPUMatrix ==
  /\ Step
  /\ \E m \in Matrices, sh \in Shapes, ok \in BOOLEAN :
    LET env == [ok |-> ok, garbage |-> Null, over |-> FALSE] IN
    /\ Vacant(m) /\ EnvOK(heap, env)
    /\ Returned("CreateCPUMatrix", m, 0, [c |-> sh[1], r |-> sh[2]] @@ CreateCPUMatrix(heap, sh[1], sh[2], env) @@ NoCopy)

CallCreateGPUMatrix ==
  /\ Step
  /\ \E m \in Matrices, sh \in Shapes, env \in Env(heap) :
    /\ Vacant(m) /\ EnvOK(heap, env) /\ ~env.over
    /\ (env.ok => env.garbage = Null)
    /\ Returned("CreateGPUMatrix", m, 0, [c |-> sh[1], r |-> sh[2]] @@ CreateGPUMatrix(heap, sh[1], sh[2], env) @@ NoCopy)

CallCreateManagedMatrix ==
  /\ Step
  /\ \E m \in Matrices, sh \in Shapes :
    LET env == [ok |-> TRUE, garbage |-> Null, over |-> FALSE] IN
    /\ Vacant(m) /\ EnvOK(heap, env)
    /\ Returned("CreateManagedMatrix", m, 0, [c |-> sh[1], r |-> sh[2]] @@ CreateManagedMatrix(heap, sh[1], sh[2], env) @@ NoCopy)

CallCreateCPUMatrixFrom ==
  /\ Step
  /\ \E m \in Matrices, s \in Matrices, env \in Env(heap) :
    /\ m # s /\ Vacant(m) /\ EnvOK(heap, env) /\ env.garbage = Null
    /\ Returned("CreateCPUMatrixFrom", m, s,
                [c |-> 0, r |-> 0] @@ CreateCPUMatrixFrom(heap, mats[s], env))

CallCreateGPUMatrixFrom ==
  /\ Step
  /\ \E m \in Matrices, s \in Matrices, env \in Env(heap) :
    /\ m # s /\ Vacant(m) /\ EnvOK(heap, env)
    /\ (env.ok => env.garbage = Null)
    /\ Returned("CreateGPUMatrixFrom", m, s,
                [c |-> 0, r |-> 0] @@ CreateGPUMatrixFrom(heap, mats[s], env))

CallCreateManagedMatrixFrom ==
  /\ Step
  /\ \E m \in Matrices, s \in Matrices :
    LET env == [ok |-> TRUE, garbage |-> Null, over |-> FALSE] IN
    /\ m # s /\ Vacant(m) /\ EnvOK(heap, env)
    /\ Returned("CreateManagedMatrixFrom", m, s,
                [c |-> 0, r |-> 0] @@ CreateManagedMatrixFrom(heap, mats[s], env))

\* mats[d].copyFrom (mats[s])
CallCopyFrom ==
  /\ Step
  /\ \E d \in Matrices, s \in Matrices, over \in BOOLEAN :
    \E x \in {copyFrom(heap, mats[d], mats[s],
                         [ok |-> TRUE, garbage |-> Null, over |-> over])} :
    /\ d # s
    /\ heap' = x.heap
    /\ last' = [op |-> "copyFrom", dst |-> d, src |-> s, c |-> 0, r |-> 0,
                prim |-> x.prim, n |-> x.n, status |-> x.status,
                readPast |-> x.readPast] @@ Quiet
    /\ UNCHANGED <<mats, stores, failures>>

\* FreeMatrix (mats[m])
CallFreeMatrix ==
  /\ Step
  /\ \E m \in Matrices :
    \E f \in {FreeMatrix(heap, mats[m])} :
    /\ mats' = [mats EXCEPT ![m] = f.buf]
    /\ heap' = f.heap
    /\ last' = [op |-> "FreeMatrix", dst |-> m, src |-> 0, c |-> 0, r |-> 0,
                dealloc |-> f.dealloc, freed |-> f.status, ptr |-> f.ptr] @@ Quiet
    /\ UNCHANGED <<stores, failures>>
  
\* l.40-47: MatrixType is an aggregate with the implicit copy operations:
\* MatrixType<T> b2 = b1 copies the four fields
ShallowCopy ==
  /\ Step
  /\ \E m \in Matrices, s \in Matrices :
    /\ m # s /\ Vacant(m) /\ ~Vacant(s)
    /\ mats' = [mats EXCEPT ![m] = mats[s]]
    /\ last' = [op |-> "ShallowCopy", dst |-> m, src |-> s, c |-> 0, r |-> 0] @@ Quiet
    /\ UNCHANGED <<heap, stores, failures>>

\* l.40-47: the only way to a Managed value that builds is the caller's own
\* aggregate, MatrixType<T> { p, c, r, Managed }, around managed storage of
\* r * c elements it obtained itself
AggregateManaged ==
  /\ Step
  /\ \E m \in Matrices, sh \in Shapes :
    /\ Vacant(m) /\ HasFree(heap)
    /\ mats' = [mats EXCEPT ![m] = MatrixType(NextRegion(heap), sh[1], sh[2], "Managed")]
    /\ heap' = Allocate(heap, "managed", sh[2] * sh[1])
    /\ last' = [op |-> "AggregateManaged", dst |-> m, src |-> 0, c |-> sh[1], r |-> sh[2],
                ret |-> "value", alloc |-> "ok"] @@ Quiet
    /\ UNCHANGED <<stores, failures>>
  
\* mats[m] (c, r) = v, by the caller, at a corner of a matrix the host can
\* dereference
Store ==
  /\ Step
  /\ \E m \in Matrices, v \in Val :
     \E c \in {0, cols(mats[m]) - 1}, r \in {0, rows(mats[m]) - 1} :
       /\ stores < MaxStores /\ stores' = stores + 1
       /\ HostReadable(heap, mats[m])
       /\ c \in Dims /\ c < cols(mats[m])
       /\ r \in Dims /\ r < rows(mats[m])
       /\ heap' = [heap EXCEPT ![mats[m].raw].data[Index2D(mats[m], c, r) + 1] = v]
       /\ last' = [op |-> "Store", dst |-> m, src |-> 0, c |-> c, r |-> r] @@ Quiet
       /\ UNCHANGED <<mats, failures>>

\* mats[m] = CreateCPUMatrix (CreateGPUMatrix (mats[s])): the round trip
\* host -> device -> host as one expression; the device temporary is given
\* to no variable
RoundTrip ==
  /\ Step
  /\ \E m \in Matrices, s \in Matrices, ok1 \in BOOLEAN, ok2 \in BOOLEAN :
     \E g \in IF ok1 THEN {Null} ELSE Garbage(heap),
        over \in IF ok1 THEN {FALSE} ELSE BOOLEAN :
       /\ m # s /\ Vacant(m) /\ mats[s].allocationType = "CPU"
       /\ ok1 => HasFree(heap)
       /\ \E d \in {CreateGPUMatrixFrom(heap, mats[s],
                                         [ok |-> ok1, garbage |-> g, over |-> over])} :
          /\ ok2 => HasFree(d.heap)
          /\ \E h2 \in {CreateCPUMatrixFrom(d.heap, d.buf,
                                         [ok |-> ok2, garbage |-> Null, over |-> over])} :
              LET refused == (IF d.alloc = "fail" THEN 1 ELSE 0)
                               + (IF h2.alloc = "fail" THEN 1 ELSE 0)
              IN  /\ failures + refused <= MaxFailures
                  /\ mats' = IF h2.ret = "value" THEN [mats EXCEPT ![m] = h2.buf] ELSE mats
                  /\ heap' = h2.heap
                  /\ failures' = failures + refused
                  /\ last' = [op |-> "RoundTrip", dst |-> m, src |-> s, ret |-> h2.ret,
                              alloc |-> IF refused > 0 THEN "fail" ELSE h2.alloc,
                              c |-> 0, r |-> 0, prim |-> h2.prim, n |-> h2.n,
                              status |-> h2.status, readPast |-> h2.readPast] @@ Quiet
                  /\ UNCHANGED stores

Next ==
  \/ CallCreateCPUMatrix
  \/ CallCreateGPUMatrix
  \/ CallCreateManagedMatrix
  \/ CallCreateCPUMatrixFrom
  \/ CallCreateGPUMatrixFrom
  \/ CallCreateManagedMatrixFrom
  \/ CallCopyFrom
  \/ CallFreeMatrix
  \/ ShallowCopy
  \/ AggregateManaged
  \/ Store
  \/ RoundTrip

Spec == Init /\ [][Next]_vars

\* the runs in which the caller never copies a MatrixType value: every value
\* comes from a factory or from the caller's aggregate around storage of its
\* own
NextOwned ==
  \/ CallCreateCPUMatrix
  \/ CallCreateGPUMatrix
  \/ CallCreateManagedMatrix
  \/ CallCreateCPUMatrixFrom
  \/ CallCreateGPUMatrixFrom
  \/ CallCreateManagedMatrixFrom
  \/ CallCopyFrom
  \/ CallFreeMatrix
  \/ AggregateManaged
  \/ Store
  \/ RoundTrip

SpecOwned == Init /\ [][NextOwned]_vars

(* ------------------------------- claims -------------------------------- *)
CreateOps == {"CreateCPUMatrix", "CreateGPUMatrix", "CreateManagedMatrix"}
CloneOps  == {"CreateCPUMatrixFrom", "CreateGPUMatrixFrom", "CreateManagedMatrixFrom"}

KindAsked(op) ==
  CASE op \in {"CreateCPUMatrix", "CreateCPUMatrixFrom"}         -> "CPU"
    [] op \in {"CreateGPUMatrix", "CreateGPUMatrixFrom"}         -> "GPU"
    [] op \in {"CreateManagedMatrix", "CreateManagedMatrixFrom"} -> "Managed"
    [] OTHER                                                     -> "Empty"

HostAddressable == {"CPU", "Managed"}

\* the transfer the copy table of the specification prescribes for two
\* non-Empty kinds
Prescribed(dstKind, srcKind) ==
  IF dstKind \in HostAddressable
  THEN IF srcKind \in HostAddressable THEN "memcpy" ELSE "DeviceToHost"
  ELSE IF srcKind \in HostAddressable THEN "HostToDevice" ELSE "DeviceToDevice"

\* C1: whenever the backend grants the storage, CreateHost, CreateDevice and
\* CreateUnified (cols, rows) each return a buffer with cols() = cols,
\* rows() = rows, size() = cols * rows and the kind asked for.
\* (CreateManaged is ill-formed and returns nothing.)
C1_CreateReturnsWhatWasAsked ==
  (last.op \in CreateOps /\ last.alloc # "fail") =>
     /\ last.ret = "value"
     /\ cols(mats[last.dst]) = last.c
     /\ rows(mats[last.dst]) = last.r
     /\ size(mats[last.dst]) = last.c * last.r
     /\ mats[last.dst].allocationType = KindAsked(last.op)

\* C2: after Free of a non-Empty buffer the buffer is Empty, its pointer is
\* null and size() is 0.  (FreeMatrix leaves col and row as they were.)
C2_FreeLeavesZeroExtent ==
  (last.op = "FreeMatrix" /\ last.dealloc # "none") =>
     /\ mats[last.dst].allocationType = "Empty"
     /\ mats[last.dst].raw = Null
     /\ size(mats[last.dst]) = 0

\* C3: after copyFrom between two buffers of non-Empty kinds that own their
\* storage and have equal size(), the primitive used is the one the copy
\* table prescribes for the two kinds, it moved size() elements, and the
\* destination holds the source's elements one by one.
C3_CopyTable ==
  LET dst == mats[last.dst]
      src == mats[last.src] IN
  (/\ last.op = "copyFrom"
   /\ Owns(heap, dst) /\ Owns(heap, src)
   /\ size(dst) = size(src)) =>
     /\ last.prim = Prescribed(dst.allocationType, src.allocationType)
     /\ last.n = size(src)
     /\ last.status = "ok"
     /\ \A i \in 1 .. size(src) : Contents(heap, dst)[i] = Contents(heap, src)[i]

\* a device buffer has received, by a host-to-device transfer, the elements
\* of a managed buffer of its size, one of them written by the caller
C3_Witness ==
  LET dst == mats[last.dst]
      src == mats[last.src] IN
  /\ last.op = "copyFrom"
  /\ Owns(heap, dst) /\ Owns(heap, src)
  /\ dst.allocationType = "GPU" /\ src.allocationType = "Managed"
  /\ dst.raw # src.raw
  /\ size(dst) = size(src) /\ size(src) > 1
  /\ last.prim = "HostToDevice" /\ last.status = "ok"
  /\ \E i \in 1 .. size(src) : Contents(heap, src)[i] \in Val
  /\ Contents(heap, dst) = Contents(heap, src)

\* C4: for a host buffer h, h2 = CreateHost (CreateDevice (h)), when it is
\* returned, has the extents of h and its elements one by one.
\* (When cudaMalloc refuses the device temporary, h2 is returned all the same
\* and holds what new T[n] left there.)
C4_RoundTrip ==
  LET h  == mats[last.src]
      h2 == mats[last.dst] IN
  (/\ last.op = "RoundTrip" /\ last.ret = "value"
   /\ h.allocationType = "CPU" /\ Owns(heap, h)) =>
     /\ h2.allocationType = "CPU" /\ Owns(heap, h2)
     /\ cols(h2) = cols(h) /\ rows(h2) = rows(h)
     /\ \A i \in 1 .. size(h) : Contents(heap, h2)[i] = Contents(heap, h)[i]

\* C5: copyFrom between non-Empty buffers of different size() fails with
\* SizeMismatch and calls no transfer primitive.
\* (copyFrom compares no sizes and has no way to report.)
C5_SizeMismatchRejected ==
  LET dst == mats[last.dst]
      src == mats[last.src] IN
  (/\ last.op = "copyFrom"
   /\ dst.allocationType # "Empty" /\ src.allocationType # "Empty"
   /\ size(dst) # size(src)) =>
     /\ last.status = "SizeMismatch"
     /\ last.prim = "none"

\* C6: for an Empty buffer b, CreateHost (b), CreateDevice (b) and
\* CreateUnified (b) each return the Empty buffer (null, 0, 0), allocate
\* nothing and copy nothing.
\* (CreateManagedMatrix (b) is ill-formed with CreateManaged.)
C6_CloneOfEmptyIsEmpty ==
  (last.op \in CloneOps /\ mats[last.src].allocationType = "Empty") =>
     /\ last.ret = "value"
     /\ mats[last.dst] = MatrixType(Null, 0, 0, "Empty")
     /\ last.alloc = "none"
     /\ last.prim = "none"

\* C7: in every reachable state, a buffer is Empty exactly when its storage
\* pointer is null.
\* (A refused cudaMalloc leaves a GPU buffer around whatever `data` held.)
C7_EmptyIffNull ==
  \A m \in Matrices : (mats[m].allocationType = "Empty") <=> (mats[m].raw = Null)

\* C8: when the backend refuses the storage, the creation operation reports
\* it to its caller and returns no buffer.
\* (CreateGPU returns a GPU buffer after a refused cudaMalloc.)
C8_AllocationFailureSurfaced ==
  (last.op \in CreateOps \cup CloneOps /\ last.alloc = "fail") =>
     last.ret # "value"

\* C9: FreeMatrix of an Empty buffer calls no deallocation primitive and
\* changes neither the buffer nor any other buffer nor the memory (so a
\* second FreeMatrix of the same variable adds nothing to the first).
C9_FreeOfEmptyIsNoOp ==
  [][ (/\ ops' # ops /\ last'.op = "FreeMatrix"
       /\ mats[last'.dst].allocationType = "Empty") =>
        /\ last'.dealloc = "none"
        /\ mats' = mats
        /\ heap' = heap ]_vars

\* FreeMatrix has been called on a variable that FreeMatrix had emptied
\* before (its extents are still those of the storage it once had)
C9_Witness ==
  /\ last.op = "FreeMatrix" /\ last.dealloc = "none"
  /\ mats[last.dst].allocationType = "Empty"
  /\ size(mats[last.dst]) > 0
  /\ \E r \in Regions : heap[r].frees = 1 /\ heap[r].len = size(mats[last.dst])

\* C10: copyFrom with an Empty destination or an Empty source calls no
\* transfer primitive and changes no buffer and no memory.
C10_CopyWithEmptyIsNoOp ==
  [][ (/\ ops' # ops /\ last'.op = "copyFrom"
       /\ \/ mats[last'.dst].allocationType = "Empty"
          \/ mats[last'.src].allocationType = "Empty") =>
        /\ last'.prim = "none"
        /\ mats' = mats
        /\ heap' = heap ]_vars

\* copyFrom has been called on a host buffer that owns written storage, with
\* an Empty source
C10_Witness ==
  LET dst == mats[last.dst]
      src == mats[last.src] IN
  /\ last.op = "copyFrom" /\ last.prim = "none"
  /\ src.allocationType = "Empty"
  /\ dst.allocationType = "CPU" /\ Owns(heap, dst)
  /\ \E i \in 1 .. size(dst) : Contents(heap, dst)[i] \in Val

\* the operations that give a variable its value: the factories of the
\* header, alone or composed, and the caller's own initialisations
GivesValue == CreateOps \cup CloneOps \cup {"RoundTrip", "ShallowCopy", "AggregateManaged"}

\* C11: the kind of a buffer changes only from Empty to a live kind, in the
\* variable an operation that creates a value assigns, and from a live kind
\* to Empty, in the variable FreeMatrix is called on; no step turns one live
\* kind into another.  copyFrom changes no field of any buffer, no region
\* but the one dst addresses, of that region nothing but the elements, and
\* no element of src.
C11_KindTransitions ==
  [][ /\ \A m \in Matrices :
           mats'[m].allocationType # mats[m].allocationType =>
             \/ /\ mats[m].allocationType = "Empty"
                /\ last'.op \in GivesValue /\ last'.dst = m
             \/ /\ mats'[m].allocationType = "Empty"
                /\ last'.op = "FreeMatrix" /\ last'.dst = m
      /\ (ops' # ops /\ last'.op = "copyFrom") =>
           /\ mats' = mats
           /\ \A r \in Regions :
                /\ r # mats[last'.dst].raw => heap'[r] = heap[r]
                /\ [heap'[r] EXCEPT !.data = << >>] = [heap[r] EXCEPT !.data = << >>]
                /\ r = mats[last'.src].raw => heap'[r].data = heap[r].data
    ]_vars

\* copyFrom has moved the elements of one host buffer, one of them written
\* by the caller, into another host buffer with a region of its own
C11_Witness ==
  LET dst == mats[last.dst]
      src == mats[last.src] IN
  /\ last.op = "copyFrom" /\ last.prim = "memcpy" /\ last.status = "ok"
  /\ dst.allocationType = "CPU" /\ src.allocationType = "CPU"
  /\ Owns(heap, dst) /\ Owns(heap, src) /\ dst.raw # src.raw
  /\ size(dst) > 0
  /\ \E i \in 1 .. size(src) : Contents(heap, src)[i] \in Val
  /\ Contents(heap, dst) = Contents(heap, src)

\* the memory spaces whose regions a deallocation primitive hands back
SpacesOf(dealloc) ==
  CASE dealloc = "delete[]" -> {"host"}
    [] dealloc = "cudaFree" -> DeviceSide
    [] OTHER                -> {}

\* C12: FreeMatrix of a non-Empty buffer calls one deallocation primitive on
\* the buffer's pointer: delete[] when the kind is CPU, cudaFree when it is
\* GPU or Managed.  The only region the call can change is the one the
\* pointer addresses, and only when it lies in a memory space of that
\* primitive; a buffer that owns its storage has it released once.
C12_DeallocMatchesKind ==
  [][ (/\ ops' # ops /\ last'.op = "FreeMatrix"
       /\ mats[last'.dst].allocationType # "Empty") =>
        LET buf == mats[last'.dst] IN
        /\ last'.dealloc = IF buf.allocationType = "CPU" THEN "delete[]" ELSE "cudaFree"
        /\ last'.ptr = buf.raw
        /\ \A r \in Regions :
             heap'[r] # heap[r] =>
               r = buf.raw /\ heap[r].space \in SpacesOf(last'.dealloc)
        /\ Owns(heap, buf) =>
             /\ ~Live(heap', buf.raw)
             /\ heap'[buf.raw].frees = heap[buf.raw].frees + 1
             /\ last'.freed = "ok"
    ]_vars

\* FreeMatrix has handed the managed storage of a Managed buffer to cudaFree
C12_Witness ==
  /\ last.op = "FreeMatrix" /\ last.dealloc = "cudaFree" /\ last.freed = "ok"
  /\ last.ptr \in Regions
  /\ heap[last.ptr].space = "managed"
  /\ ~heap[last.ptr].live /\ heap[last.ptr].frees = 1
  /\ mats[last.dst].allocationType = "Empty"

\* C13: for a buffer the host can dereference and every c in 0 .. cols - 1,
\* r in 0 .. rows - 1, buf (c, r) is the element buf [r * cols + c], an
\* offset inside 0 .. size - 1; the element the caller last wrote through
\* buf (c, r) is found through buf [r * cols + c].
C13_RowMajor ==
  /\ \A m \in Matrices :
       HostReadable(heap, mats[m]) =>
         \A c \in 0 .. cols(mats[m]) - 1, r \in 0 .. rows(mats[m]) - 1 :
           /\ Index2D(mats[m], c, r) \in 0 .. size(mats[m]) - 1
           /\ Index2D(mats[m], c, r) = r * cols(mats[m]) + c
           /\ At(heap, mats[m], c, r) = Elem(heap, mats[m], r * cols(mats[m]) + c)
  /\ last.op = "Store" =>
       Elem(heap, mats[last.dst], last.r * cols(mats[last.dst]) + last.c) \in Val

\* the caller has written the element (cols - 1, 0) of a square buffer: it
\* is the last of the first row, and (0, rows - 1) is still as allocated
C13_Witness ==
  LET buf == mats[last.dst] IN
  /\ last.op = "Store" /\ last.c = MaxDim - 1 /\ last.r = 0
  /\ cols(buf) = MaxDim /\ rows(buf) = MaxDim
  /\ HostReadable(heap, buf)
  /\ At(heap, buf, MaxDim - 1, 0) \in Val
  /\ Elem(heap, buf, MaxDim - 1) \in Val
  /\ At(heap, buf, 0, MaxDim - 1) \notin Val

\* C14: when a second variable holds the same value as a buffer that owns
\* its storage (b2 = b1), FreeMatrix (b1) releases the region and leaves b2
\* as it was: non-null pointer, live kind, addressing the released region.
\* FreeMatrix of a buffer whose region has been released once hands the
\* same pointer to the deallocation primitive of its kind again: the region
\* is released a second time.
C14_AliasDoubleFree ==
  [][ (ops' # ops /\ last'.op = "FreeMatrix") =>
        LET b1 == mats[last'.dst] IN
        /\ \A q \in Matrices :
             (q # last'.dst /\ mats[q] = b1 /\ Owns(heap, b1)) =>
               /\ mats'[q] = mats[q]
               /\ mats'[q].raw # Null /\ mats'[q].allocationType # "Empty"
               /\ ~Live(heap', mats'[q].raw)
               /\ heap'[mats'[q].raw].frees = 1
        /\ (/\ b1.allocationType # "Empty" /\ b1.raw \in Regions
            /\ heap[b1.raw].space = SpaceOf(b1.allocationType)
            /\ heap[b1.raw].frees = 1) =>
               /\ last'.dealloc # "none" /\ last'.ptr = b1.raw
               /\ last'.freed # "ok"
               /\ heap'[b1.raw].frees = 2
    ]_vars

\* after b2 = b1 both variables have been through FreeMatrix: the one region
\* they shared has been released twice, the second time by the last call
C14_Witness ==
  /\ last.op = "FreeMatrix" /\ last.dealloc = "delete[]"
  /\ last.ptr \in Regions /\ heap[last.ptr].frees = 2
  /\ \A m \in Matrices : mats[m].allocationType = "Empty" /\ size(mats[m]) > 0
  /\ \A r \in Regions : r # last.ptr => heap[r].space = "none"

\* C15: whenever the backend grants the storage, CreateHost, CreateDevice
\* and CreateUnified of a buffer that owns its storage each return a buffer
\* of the kind asked for, with the source's cols and rows, owning a region
\* that was not allocated before and is not the source's; the source's
\* fields and its region are as they were, so that the two buffers hold two
\* live regions, neither released yet.
\* (CreateManagedMatrix (existing) is ill-formed with CreateManaged.)
C15_CloneIsFresh ==
  [][ (/\ ops' # ops /\ last'.op \in CloneOps /\ last'.alloc # "fail"
       /\ Owns(heap, mats[last'.src])) =>
        LET existing == mats[last'.src]
            clone    == mats'[last'.dst] IN
        /\ last'.ret = "value"
        /\ clone.allocationType = KindAsked(last'.op)
        /\ cols(clone) = cols(existing) /\ rows(clone) = rows(existing)
        /\ Owns(heap', clone)
        /\ clone.raw # existing.raw
        /\ heap[clone.raw].space = "none"
        /\ mats'[last'.src] = existing
        /\ heap'[existing.raw] = heap[existing.raw]
        /\ heap'[clone.raw].frees = 0 /\ heap'[existing.raw].frees = 0
    ]_vars

\* C16: in the runs without a shallow copy, no two non-Empty buffers hold
\* the address of the same region, no region has been released more than
\* once, and no non-Empty buffer holds the address of a released region.
\* (After a refused cudaMalloc the GPU buffer holds whatever `data` held,
\* the address of another buffer's region included.)
C16_ExclusiveOwnership ==
  /\ \A m \in Matrices, q \in Matrices :
       (/\ m # q
        /\ mats[m].allocationType # "Empty" /\ mats[q].allocationType # "Empty"
        /\ mats[m].raw \in Regions) => mats[m].raw # mats[q].raw
  /\ \A r \in Regions : heap[r].frees <= 1
  /\ \A m \in Matrices :
       (mats[m].allocationType # "Empty" /\ mats[m].raw \in Regions) =>
          Live(heap, mats[m].raw)

C18_TransferFailureSurfaced ==
  (last.op = "copyFrom" /\ last.status = "error") => last.ret = "error"
====
